---- MODULE Spec2Model ----
(***************************************************************************)
(* dsda_doom_stats.py: walk a tree of stats.txt files, classify each level *)
(* as maxed or not under a table of exceptions, and keep two run totals.   *)
(*                                                                         *)
(* The same tree and the same exception table are processed by two runs    *)
(* side by side, one for each value of PRINT_ONCE_PER_WAD (the run is      *)
(* named by that value).  Paths, version lines and data lines are inputs   *)
(* of the step that reads them.                                            *)
(***************************************************************************)
EXTENDS Integers, Sequences, FiniteSets

\* ---------------------------------------------------------------- bounds
MaxLines == 2
MaxSecretExc == 2
MaxTotal == 1

\* ------------------------------------------------------ module constants
PRINT_MAX_WADS == TRUE
PRINT_MAX_LVLS == FALSE
PRINT_UNMAX_LVLS == TRUE
PRINT_UNPLAY_LVLS_off == FALSE
PRINT_UNPLAY_LVLS == TRUE

Runs == BOOLEAN

\* ------------------------------------------------------------ input sets
\* Paths of stats.txt files relative to ROOT_PATH, as path parts.
Paths ==
    { <<"doom2", "stats.txt">>,
      <<"doom2", "av", "stats.txt">> }

\* Python's order on the path parts that occur ("" < "av" < "doom2" < ...).
StrRank(s) ==
    CASE s = "" -> 0
      [] s = "av" -> 1
      [] s = "doom2" -> 2
      [] s = "stats.txt" -> 3

VersionLines == { "1\n", " 1\n", "2\n", "" }

\* str.strip() on the version lines that occur.
strip(s) ==
    CASE s = "1\n" -> "1"
      [] s = " 1\n" -> "1"
      [] s = "2\n" -> "2"
      [] s = "" -> ""

\* The lump of the k-th data line of a stats file.
Lumps == <<"MAP01", "MAP02", "MAP03", "MAP04">>

IntTokens == { "-1", "0", "1", "2" }

\* int() on a token: the value of a decimal literal.
IntOf(tok) ==
    CASE tok = "-1" -> -1
      [] tok = "0" -> 0
      [] tok = "1" -> 1
      [] tok = "2" -> 2

\* A well-formed data line, already split into its 15 tokens: lump, ep, map,
\* best skill, best time, best max time, best sk5 time, total exits, total
\* kills, best kills, best items, best secrets, max kills, max items, max
\* secrets.  The maxima of the levels drawn are all 2.
DataLine(lump, bt, bk, bi, bs) ==
    <<lump, "1", "1", "2", bt, bt, "-1", "1", "2", bk, bi, bs, "2", "2", "2">>

GoodLines(lump) ==
    { DataLine(lump, bt, bk, bi, bs) :
        bt \in {"-1", "1"}, bk \in {"0", "1", "2"},
        bi \in {"1", "2"}, bs \in {"0", "1", "2"} }

\* Lines parse_stats cannot decode: a blank line, a line one token short, a
\* version-2 line (two more tokens), a line with a token that is no integer.
BadLines(lump) ==
    { <<>>,
      SubSeq(DataLine(lump, "1", "2", "2", "2"), 1, 14),
      DataLine(lump, "1", "2", "2", "2") \o <<"1", "1">>,
      [DataLine(lump, "1", "2", "2", "2") EXCEPT ![10] = "x"] }

Lines(lump) == GoodLines(lump) \cup BadLines(lump)

\* ------------------------------------------------------ exception table
\* Entries name the first level of DOOM2 (no pwad); a secret entry may also
\* name the first level of the pwad.  The other levels are the ones no entry
\* matches.
ExcWad == <<"doom2", "av">>
ExcLevel == <<"doom2", "", "MAP01">>
OtherLevel == <<"doom2", "av", "MAP01">>

SeqsUpTo(S, n) == UNION { [1..k -> S] : k \in 0..n }

KillLists == { <<>>, <<ExcLevel \o <<1>> >> }
SecretLists ==
    SeqsUpTo({ ExcLevel \o <<1>>, ExcLevel \o <<2>>, OtherLevel \o <<1>> },
             MaxSecretExc)
ItemLists == { <<>>, <<ExcLevel \o <<1>> >> }
PlayLists == { <<>>, <<ExcLevel>> }
WadLists == { <<>>, <<ExcWad>> }

\* The tables of the runs over a tree: at most one entry in each list.
WalkTables ==
    [ WAD_EXCEPTIONS : WadLists,
      KILL_EXCEPTIONS : KillLists,
      SECRET_EXCEPTIONS : { <<>>, <<ExcLevel \o <<1>> >> },
      ITEM_EXCEPTIONS : ItemLists,
      PLAY_EXCEPTIONS : PlayLists ]

\* The tables check_max is called with on its own: no WAD is excepted, and
\* a level may have several secret entries.
CallTables ==
    [ WAD_EXCEPTIONS : { <<>> },
      KILL_EXCEPTIONS : KillLists,
      SECRET_EXCEPTIONS : SecretLists,
      ITEM_EXCEPTIONS : ItemLists,
      PLAY_EXCEPTIONS : PlayLists ]

\* ------------------------------------------------------- DSDA_Stat_Line
\* DSDA_Stat_Line(iwad, pwad, *stats) for a parsed line of 15 fields.
DSDA_Stat_Line(iwad, pwad, stats) ==
    [ iwad |-> iwad, pwad |-> pwad, lump_name |-> stats[1],
      best_time |-> stats[5], best_kills |-> stats[10],
      best_items |-> stats[11], best_secrets |-> stats[12],
      max_kills |-> stats[13], max_items |-> stats[14],
      max_secrets |-> stats[15] ]

maxed(level) ==
    LET kill_max == level.best_kills = level.max_kills
        secret_max == level.best_secrets = level.max_secrets
    IN  kill_max /\ secret_max

item_maxed(level) == level.best_items = level.max_items

triplet_id(level) == <<level.iwad, level.pwad, level.lump_name>>

\* The kill loop of max_exception over entries k..Len, from the flag so far.
RECURSIVE KillLoop(_, _, _, _)
KillLoop(level, list, k, is_exception) ==
    IF k > Len(list) THEN is_exception
    ELSE IF triplet_id(level) # SubSeq(list[k], 1, 3)
         THEN KillLoop(level, list, k + 1, is_exception)
         ELSE IF level.best_kills >= list[k][4]
              THEN KillLoop(level, list, k + 1, TRUE)
              ELSE KillLoop(level, list, k + 1, is_exception)

\* The secret loop with its else branch left out: an unmet entry leaves the
\* flag as it is.
RECURSIVE SecretLoop_no_else(_, _, _, _)
SecretLoop_no_else(level, list, k, is_exception) ==
    IF k > Len(list) THEN is_exception
    ELSE IF triplet_id(level) # SubSeq(list[k], 1, 3)
         THEN SecretLoop_no_else(level, list, k + 1, is_exception)
         ELSE IF level.best_secrets >= list[k][4]
              THEN SecretLoop_no_else(level, list, k + 1, TRUE)
              ELSE SecretLoop_no_else(level, list, k + 1, is_exception)

\* The secret loop of max_exception: a met entry sets the flag, an unmet
\* entry clears it.
RECURSIVE SecretLoop(_, _, _, _)
SecretLoop(level, list, k, is_exception) ==
    IF k > Len(list) THEN is_exception
    ELSE IF triplet_id(level) # SubSeq(list[k], 1, 3)
         THEN SecretLoop(level, list, k + 1, is_exception)
         ELSE IF level.best_secrets >= list[k][4]
              THEN SecretLoop(level, list, k + 1, TRUE)
              ELSE SecretLoop(level, list, k + 1, FALSE)

max_exception(level, exc_table) ==
    SecretLoop(level, exc_table.SECRET_EXCEPTIONS, 1,
               KillLoop(level, exc_table.KILL_EXCEPTIONS, 1, FALSE))

RECURSIVE ItemLoop(_, _, _, _)
ItemLoop(level, list, k, is_exception) ==
    IF k > Len(list) THEN is_exception
    ELSE IF triplet_id(level) # SubSeq(list[k], 1, 3)
         THEN ItemLoop(level, list, k + 1, is_exception)
         ELSE IF level.best_items >= list[k][4]
              THEN ItemLoop(level, list, k + 1, TRUE)
              ELSE ItemLoop(level, list, k + 1, is_exception)

item_exception(level, exc_table) ==
    ItemLoop(level, exc_table.ITEM_EXCEPTIONS, 1, FALSE)

\* x in list
In(x, list) == \E k \in 1..Len(list) : list[k] = x

\* check_max without its effect on the totals: the value returned, whether
\* TOTAL_MAXED_LVLS is incremented, and the message printed ("" for none).
check_max(level, exc_table, require_items, once_per_wad) ==
    IF level.best_time = -1 /\ In(triplet_id(level), exc_table.PLAY_EXCEPTIONS)
    THEN [ret |-> TRUE, counted |-> FALSE, msg |-> ""]
    ELSE IF level.best_time = -1 /\ PRINT_UNPLAY_LVLS
    THEN [ret |-> FALSE, counted |-> FALSE, msg |-> "unplayed"]
    ELSE IF require_items /\ ~item_maxed(level)
            /\ ~item_exception(level, exc_table)
    THEN [ret |-> FALSE, counted |-> FALSE,
          msg |-> IF PRINT_UNMAX_LVLS THEN "missing_items" ELSE ""]
    ELSE IF ~maxed(level) /\ ~max_exception(level, exc_table)
            /\ PRINT_UNMAX_LVLS
    THEN [ret |-> FALSE, counted |-> FALSE, msg |-> "unmaxed"]
    ELSE [ret |-> TRUE, counted |-> TRUE,
          msg |-> IF PRINT_MAX_LVLS /\ ~once_per_wad THEN "maxed" ELSE ""]

\* The loop body of parse_stats up to the call of check_max: int() on the
\* tokens after the first (ValueError), then the assertion on the count.
Decodes(line) ==
    /\ \A k \in 2..Len(line) : line[k] \in IntTokens
    /\ Len(line) = 15

Decode(line) == [k \in 1..Len(line) |-> IF k = 1 THEN line[k] ELSE IntOf(line[k])]

\* ------------------------------------------------------------ the walk
\* _path_sort_key: an iwad's own stats sort before those of its pwads.
path_sort_key(p) ==
    IF Len(p) = 2 THEN <<p[1], "", p[2]>> ELSE p

\* Python's order on tuples of strings.
RECURSIVE TupleLess(_, _, _)
TupleLess(a, b, k) ==
    IF k > Len(a) THEN k <= Len(b)
    ELSE IF k > Len(b) THEN FALSE
    ELSE IF a[k] = b[k] THEN TupleLess(a, b, k + 1)
    ELSE StrRank(a[k]) < StrRank(b[k])

\* p comes after q in sorted(ROOT_PATH.rglob("stats.txt"), key=_path_sort_key);
\* <<>> stands for "no file visited yet".
SortsAfter(p, q) ==
    q = <<>> \/ TupleLess(path_sort_key(q), path_sort_key(p), 1)

iwad_of(p) == p[1]
pwad_of(p) == IF Len(p) > 2 THEN p[2] ELSE ""

\* parse_path's test [iwad, pwad] in exc_table.WAD_EXCEPTIONS, and the same
\* test made on the path parts.
wad_excepted_by_parts(p, table) == In(p, table.WAD_EXCEPTIONS)

wad_excepted(p, table) ==
    In(<<iwad_of(p), pwad_of(p)>>, table.WAD_EXCEPTIONS)

\* wad_max after a call of check_max returned ret, and the same without the
\* assignment.
wad_max_kept(w, ret) == w

wad_max_after(w, ret) == IF ~ret THEN FALSE ELSE w

\* The lines printed are counted by what they are about: a level (the
\* messages of check_max), a WAD that is completely maxed, the blank line
\* between WADs, the two totals.
OutKinds == { "level", "wad_maxed", "blank", "totals" }

Emit(o, m) ==
    IF m = "" THEN o
    ELSE IF m \in OutKinds THEN [o EXCEPT ![m] = @ + 1]
    ELSE [o EXCEPT !["level"] = @ + 1]

VARIABLES
    exc_table,          \* the Exceptions_Table loaded by main
    REQUIRE_ITEMS,      \* args.items
    path,               \* the stats file main's loop is at (<<>> before the first)
    in_file,            \* TRUE while some run iterates over the lines of path
    line_no,            \* how many data lines of path have been iterated over
    on_disk,            \* what the files read so far contain (see DiskInit)
    pc,                 \* per run: "off", "main", "loop", "break", "aborted", "done"
    TOTAL_MAXED_LVLS,   \* per run
    TOTAL_DEAD_DEMONS,  \* per run
    wad_max,            \* per run: the local of parse_stats
    out,                \* per run: how many lines of each kind were printed
    calls,              \* per run: the calls of check_max (see CallsInit)
    level,              \* the level of the last direct call of check_max
    verdict             \* what that call returned (see NoVerdict)

vars == << exc_table, REQUIRE_ITEMS, path, in_file, line_no, on_disk, pc,
           TOTAL_MAXED_LVLS, TOTAL_DEAD_DEMONS, wad_max, out, calls, level,
           verdict >>

\* on_disk: of the data lines of the current file, what check_max returns
\* for each ("bad" for a line that does not decode); over all files that
\* were opened, the sum of best_kills of the lines that decode and whether
\* a version line or a data line was unreadable.
DiskInit == [ outcomes |-> <<>>, kills |-> 0, fatal |-> FALSE ]

\* calls: how many calls of check_max were made (in the current file, for a
\* run over a tree), and how many calls of the run returned True.
CallsInit == [ made |-> 0, returned_true |-> 0 ]

NoLevel ==
    DSDA_Stat_Line("", "", <<"", 0, 0, 0, 0, 0, 0, 0, 0, 0, 0, 0, 0, 0, 0>>)

\* verdict: what level.max_exception(exc_table) and check_max returned.
NoVerdict ==
    [ called |-> FALSE, is_exception |-> FALSE, ret |-> FALSE,
      counted |-> FALSE, msg |-> "" ]

\* The state at the start of main, for the runs named by started, with the
\* two totals at maxed0 and demons0.
Start(tables, started, maxed0, demons0) ==
    /\ exc_table \in tables
    /\ REQUIRE_ITEMS \in BOOLEAN
    /\ path = <<>>
    /\ in_file = FALSE
    /\ line_no = 0
    /\ on_disk = DiskInit
    /\ pc = [r \in Runs |-> IF r \in started THEN "main" ELSE "off"]
    /\ TOTAL_MAXED_LVLS = [r \in Runs |-> IF r \in started THEN maxed0 ELSE 0]
    /\ TOTAL_DEAD_DEMONS = [r \in Runs |-> IF r \in started THEN demons0 ELSE 0]
    /\ wad_max = [r \in Runs |-> TRUE]
    /\ out = [r \in Runs |-> [m \in OutKinds |-> 0]]
    /\ calls = [r \in Runs |-> CallsInit]
    /\ level = NoLevel
    /\ verdict = NoVerdict

\* One run, with PRINT_ONCE_PER_WAD set or not.
Init == \E r \in Runs : Start(WalkTables, {r}, 0, 0)

\* What check_max returns for a data line of the file at path p, as the
\* file's contents are recorded: "True", "False", or "bad" for a line that
\* does not decode.
Classify(p, line) ==
    IF ~Decodes(line) THEN "bad"
    ELSE IF check_max(DSDA_Stat_Line(iwad_of(p), pwad_of(p), Decode(line)),
                      exc_table, REQUIRE_ITEMS, FALSE).ret
         THEN "True" ELSE "False"

\* parse_path up to the loop of parse_stats, for the next path of the walk
\* and the version line of its file.  An excepted WAD is not opened; a
\* version other than "1" raises RuntimeError, which nothing catches.
ParsePath(p, stats_ver) ==
    LET skipped == wad_excepted(p, exc_table)
        supported == strip(stats_ver) = "1"
    IN  /\ ~in_file
        /\ SortsAfter(p, path)
        /\ \E r \in Runs : pc[r] = "main"
        /\ path' = p
        /\ line_no' = 0
        /\ in_file' = (~skipped /\ supported)
        /\ on_disk' = IF skipped THEN on_disk
                      ELSE [on_disk EXCEPT !.outcomes = <<>>,
                                           !.fatal = @ \/ ~supported]
        /\ pc' = [r \in Runs |->
                    IF pc[r] # "main" \/ skipped THEN pc[r]
                    ELSE IF supported THEN "loop" ELSE "aborted"]
        /\ wad_max' = [r \in Runs |->
                    IF pc[r] = "main" /\ ~skipped /\ supported
                    THEN TRUE ELSE wad_max[r]]
        /\ calls' = [r \in Runs |->
                    IF skipped THEN calls[r]
                    ELSE [calls[r] EXCEPT !.made = 0]]
        /\ UNCHANGED << exc_table, REQUIRE_ITEMS, TOTAL_MAXED_LVLS,
                        TOTAL_DEAD_DEMONS, out, level, verdict >>

\* One iteration of the loop of parse_stats over the next data line of the
\* file, in each run that is still in the loop: decode the line (ValueError
\* or AssertionError when it does not decode), call check_max, and on a
\* False clear wad_max and, with PRINT_ONCE_PER_WAD, leave the loop.
LoopStep(line) ==
    LET ok == Decodes(line)
        lvl == DSDA_Stat_Line(iwad_of(path), pwad_of(path), Decode(line))
        res(r) == check_max(lvl, exc_table, REQUIRE_ITEMS, r)
        runs(r) == pc[r] = "loop"
    IN  /\ in_file
        /\ line_no < MaxLines
        /\ \E r \in Runs : pc[r] \in {"loop", "break"}
        /\ line_no' = line_no + 1
        /\ on_disk' = [on_disk EXCEPT
                         !.outcomes = Append(@, Classify(path, line)),
                         !.kills = IF ok THEN @ + lvl.best_kills ELSE @,
                         !.fatal = @ \/ ~ok]
        /\ pc' = [r \in Runs |->
                    IF ~runs(r) THEN pc[r]
                    ELSE IF ~ok THEN "aborted"
                    ELSE IF ~res(r).ret /\ r THEN "break"
                    ELSE "loop"]
        /\ TOTAL_DEAD_DEMONS' = [r \in Runs |->
                    IF runs(r) /\ ok
                    THEN TOTAL_DEAD_DEMONS[r] + lvl.best_kills
                    ELSE TOTAL_DEAD_DEMONS[r]]
        /\ TOTAL_MAXED_LVLS' = [r \in Runs |->
                    IF runs(r) /\ ok /\ res(r).counted
                    THEN TOTAL_MAXED_LVLS[r] + 1
                    ELSE TOTAL_MAXED_LVLS[r]]
        /\ wad_max' = [r \in Runs |->
                    IF runs(r) /\ ok
                    THEN wad_max_after(wad_max[r], res(r).ret)
                    ELSE wad_max[r]]
        /\ out' = [r \in Runs |->
                    IF runs(r) /\ ok THEN Emit(out[r], res(r).msg) ELSE out[r]]
        /\ calls' = [r \in Runs |->
                    IF runs(r) /\ ok
                    THEN [ made |-> calls[r].made + 1,
                           returned_true |-> calls[r].returned_true
                                             + (IF res(r).ret THEN 1 ELSE 0) ]
                    ELSE calls[r]]
        /\ UNCHANGED << exc_table, REQUIRE_ITEMS, path, in_file, level,
                        verdict >>

\* The end of parse_stats and of parse_path once the loop is over (the file
\* has no more lines, or the loop was left): the "completely maxed" line,
\* and the blank line of a run without PRINT_ONCE_PER_WAD.
EndLoop ==
    LET runs(r) == pc[r] \in {"loop", "break"}
        celebrated(r) == IF wad_max[r] /\ PRINT_MAX_WADS THEN "wad_maxed" ELSE ""
    IN  /\ in_file
        /\ in_file' = FALSE
        /\ pc' = [r \in Runs |-> IF runs(r) THEN "main" ELSE pc[r]]
        /\ out' = [r \in Runs |->
                    IF runs(r)
                    THEN Emit(Emit(out[r], celebrated(r)),
                              IF ~r THEN "blank" ELSE "")
                    ELSE out[r]]
        /\ wad_max' = [r \in Runs |-> TRUE]
        /\ line_no' = 0
        /\ on_disk' = [on_disk EXCEPT !.outcomes = <<>>]
        /\ calls' = [r \in Runs |-> [calls[r] EXCEPT !.made = 0]]
        /\ UNCHANGED << exc_table, REQUIRE_ITEMS, path, TOTAL_MAXED_LVLS,
                        TOTAL_DEAD_DEMONS, level, verdict >>

\* The end of main: the walk yields no further file; the two totals are
\* printed.
Finish ==
    /\ ~in_file
    /\ \E r \in Runs : pc[r] = "main"
    /\ pc' = [r \in Runs |-> IF pc[r] = "main" THEN "done" ELSE pc[r]]
    /\ out' = [r \in Runs |->
                IF pc[r] = "main"
                THEN Emit(Emit(out[r], "totals"), "totals") ELSE out[r]]
    /\ UNCHANGED << exc_table, REQUIRE_ITEMS, path, in_file, line_no,
                    on_disk, TOTAL_MAXED_LVLS, TOTAL_DEAD_DEMONS, wad_max,
                    calls, level, verdict >>

Next ==
    \/ \E p \in Paths, stats_ver \in VersionLines : ParsePath(p, stats_ver)
    \/ \E line \in Lines(Lumps[line_no + 1]) : LoopStep(line)
    \/ EndLoop
    \/ Finish

Spec == Init /\ [][Next]_vars

\* The same tree and table under both settings of PRINT_ONCE_PER_WAD, the
\* two runs reading each file and each line together.
InitBoth == Start(WalkTables, Runs, 0, 0)

SpecBoth == InitBoth /\ [][Next]_vars

\* ------------------------------------------------ check_max on its own
\* A direct call of level.max_exception(exc_table) and of
\* check_max(iwad, pwad, stats, exc_table) for the first level of the WAD at
\* p, in the run with PRINT_ONCE_PER_WAD set, whatever the totals are when
\* the call is made.
CallCheckMax(p, line) ==
    LET lvl == DSDA_Stat_Line(iwad_of(p), pwad_of(p), Decode(line))
        res == check_max(lvl, exc_table, REQUIRE_ITEMS, TRUE)
    IN  /\ ~verdict.called
        /\ level' = lvl
        /\ verdict' = [ called |-> TRUE,
                        is_exception |-> max_exception(lvl, exc_table),
                        ret |-> res.ret, counted |-> res.counted,
                        msg |-> res.msg ]
        /\ TOTAL_DEAD_DEMONS' =
              [TOTAL_DEAD_DEMONS EXCEPT ![TRUE] = @ + lvl.best_kills]
        /\ TOTAL_MAXED_LVLS' =
              [TOTAL_MAXED_LVLS EXCEPT ![TRUE] = IF res.counted THEN @ + 1 ELSE @]
        /\ out' = [out EXCEPT ![TRUE] = Emit(@, res.msg)]
        /\ calls' = [calls EXCEPT ![TRUE] =
                        [ made |-> @.made + 1,
                          returned_true |-> @.returned_true
                                            + (IF res.ret THEN 1 ELSE 0) ]]
        /\ UNCHANGED << exc_table, REQUIRE_ITEMS, path, in_file, line_no,
                        on_disk, pc, wad_max >>

InitCall ==
    \E maxed0 \in 0..MaxTotal, demons0 \in 0..MaxTotal :
        Start(CallTables, {TRUE}, maxed0, demons0)

NextCall == \E p \in Paths, line \in GoodLines(Lumps[1]) : CallCheckMax(p, line)

SpecCall == InitCall /\ [][NextCall]_vars

TypeOK ==
    /\ \A r \in Runs : pc[r] \in {"off", "main", "loop", "break", "aborted", "done"}
    /\ line_no \in 0..MaxLines

\* ================================================================ claims
\* The triplet of a level and the entries of a list that match it, written
\* out without the operators of the model.
Triplet(l) == <<l.iwad, l.pwad, l.lump_name>>
Matching(l, list) ==
    { k \in 1..Len(list) : <<list[k][1], list[k][2], list[k][3]>> = Triplet(l) }
SomeMet(l, list, best) == \E k \in Matching(l, list) : list[k][4] <= best
SomeUnmet(l, list, best) == \E k \in Matching(l, list) : list[k][4] > best
Last(S) == CHOOSE k \in S : \A j \in S : j <= k
PlayExcepted(l) ==
    \E k \in 1..Len(exc_table.PLAY_EXCEPTIONS) :
        exc_table.PLAY_EXCEPTIONS[k] = Triplet(l)
WadOf(p) == <<p[1], IF Len(p) > 2 THEN p[2] ELSE "">>
WadListed(p) ==
    \E k \in 1..Len(exc_table.WAD_EXCEPTIONS) :
        exc_table.WAD_EXCEPTIONS[k] = WadOf(p)
EveryLineMaxed ==
    \A k \in 1..Len(on_disk.outcomes) : on_disk.outcomes[k] = "True"
\* The number of lines up to and including the first one that is not Maxed.
PrefixLen(o) ==
    IF \E k \in 1..Len(o) : o[k] # "True"
    THEN CHOOSE k \in 1..Len(o) :
            o[k] # "True" /\ \A j \in 1..(k - 1) : o[j] = "True"
    ELSE Len(o)

\* C1: at every point of a run, TOTAL_MAXED_LVLS is the number of levels
\* check_max has returned True for, play-excepted unplayed levels included.
C1_MaxedCountsTrueReturns ==
    \A r \in Runs : TOTAL_MAXED_LVLS[r] = calls[r].returned_true

\* C2: at the end of a run without a fatal error, TOTAL_DEAD_DEMONS is the
\* sum of best_kills over every data line of every stats file that is not
\* excepted, with PRINT_ONCE_PER_WAD set or not.
C2_KillsSumOverEveryLine ==
    \A r \in Runs :
        (pc[r] = "done" /\ ~on_disk.fatal)
            => TOTAL_DEAD_DEMONS[r] = on_disk.kills

\* C3: for a level with a matching kill entry and a matching secret entry,
\* max_exception returns True only if some matching kill entry is met and
\* some matching secret entry is met.
C3_ExceptionsConjunctive ==
    ( /\ verdict.called
      /\ Matching(level, exc_table.KILL_EXCEPTIONS) # {}
      /\ Matching(level, exc_table.SECRET_EXCEPTIONS) # {}
      /\ verdict.is_exception )
        => ( /\ SomeMet(level, exc_table.KILL_EXCEPTIONS, level.best_kills)
             /\ SomeMet(level, exc_table.SECRET_EXCEPTIONS, level.best_secrets) )

\* C4 as stated: if some matching secret entry is unmet, max_exception
\* returns False, whatever the other entries and their order.
C4_AnyUnmetSecretEntryDenies ==
    ( /\ verdict.called
      /\ SomeUnmet(level, exc_table.SECRET_EXCEPTIONS, level.best_secrets) )
        => ~verdict.is_exception

\* C4 as amended: if the last matching secret entry of the list is unmet,
\* max_exception returns False, whatever the kill entries and the secret
\* entries before it.
C4_LastUnmetSecretEntryDenies ==
    LET list == exc_table.SECRET_EXCEPTIONS
        M == Matching(level, list)
    IN  ( /\ verdict.called
          /\ M # {}
          /\ list[Last(M)][4] > level.best_secrets )
            => ~verdict.is_exception

\* A level whose kill entry and first secret entry are met and whose last
\* matching secret entry is unmet, and max_exception returned False.
C4_Witness ==
    LET list == exc_table.SECRET_EXCEPTIONS
        M == Matching(level, list)
    IN  /\ verdict.called
        /\ Cardinality(M) >= 2
        /\ list[Last(M)][4] > level.best_secrets
        /\ SomeMet(level, list, level.best_secrets)
        /\ SomeMet(level, exc_table.KILL_EXCEPTIONS, level.best_kills)
        /\ ~verdict.is_exception

\* C5: when the loop of parse_stats is over, the WAD is reported as
\* completely maxed if and only if check_max returns True for every data
\* line of its stats file, with PRINT_ONCE_PER_WAD set or not.
C5_WadMaxedIffEveryLineMaxed ==
    [][ \A r \in Runs :
          (pc[r] \in {"loop", "break"} /\ pc'[r] = "main")
            => /\ out'[r]["wad_maxed"] - out[r]["wad_maxed"] \in {0, 1}
               /\ (out'[r]["wad_maxed"] = out[r]["wad_maxed"] + 1)
                     <=> EveryLineMaxed ]_vars

\* DOOM2 was reported as completely maxed with a play-excepted unplayed
\* level among its levels.
C5_Witness ==
    \E r \in Runs :
        /\ path = <<"doom2", "stats.txt">>
        /\ pc[r] = "main"
        /\ out[r]["wad_maxed"] = 1
        /\ calls[r].returned_true > TOTAL_MAXED_LVLS[r]
        /\ TOTAL_MAXED_LVLS[r] > 0

\* C6: when parse_path is given the stats file of a WAD listed in
\* WAD_EXCEPTIONS it changes neither total, calls check_max on nothing,
\* prints nothing, and the file is not opened.
C6_ExceptedWadSkipped ==
    [][ (path' # path /\ WadListed(path'))
          => /\ TOTAL_MAXED_LVLS' = TOTAL_MAXED_LVLS
             /\ TOTAL_DEAD_DEMONS' = TOTAL_DEAD_DEMONS
             /\ out' = out
             /\ calls' = calls
             /\ pc' = pc
             /\ on_disk' = on_disk
             /\ ~in_file' ]_vars

\* The walk is at the file of an excepted WAD after a file whose kills were
\* counted.
C6_Witness ==
    \E r \in Runs :
        /\ path # <<>>
        /\ WadListed(path)
        /\ pc[r] = "main"
        /\ TOTAL_DEAD_DEMONS[r] > 0

\* C7: for a level with best_time = -1 that is not play-excepted, check_max
\* returns False (the level "isn't beaten") and does not increment
\* TOTAL_MAXED_LVLS, whatever its kills, secrets and items, the item mode
\* and the exceptions; its best_kills is added to TOTAL_DEAD_DEMONS.
C7_UnplayedIsNotMaxed ==
    [][ (verdict'.called /\ ~verdict.called
         /\ level'.best_time = -1 /\ ~PlayExcepted(level'))
          => /\ ~verdict'.ret
             /\ verdict'.msg = "unplayed"
             /\ TOTAL_MAXED_LVLS'[TRUE] = TOTAL_MAXED_LVLS[TRUE]
             /\ TOTAL_DEAD_DEMONS'[TRUE]
                  = TOTAL_DEAD_DEMONS[TRUE] + level'.best_kills ]_vars

\* An unplayed level with every kill, secret and item, with a kill entry of
\* its own, was called in item mode and returned False.
C7_Witness ==
    /\ verdict.called
    /\ level.best_time = -1
    /\ ~PlayExcepted(level)
    /\ level.best_kills = level.max_kills
    /\ level.best_secrets = level.max_secrets
    /\ level.best_items = level.max_items
    /\ Matching(level, exc_table.KILL_EXCEPTIONS) # {}
    /\ REQUIRE_ITEMS
    /\ ~verdict.ret
    /\ TOTAL_DEAD_DEMONS[TRUE] > level.best_kills

\* C8: once a stats file that is read has a version line other than "1" or
\* a data line that does not decode, the run never prints its summary.
C8_FatalErrorAbortsRun ==
    \A r \in Runs : on_disk.fatal => pc[r] # "done"

\* C9: a level with best_time # -1 that check_max counts as Maxed has its
\* kills justified (at the maximum, or a met kill entry) and its secrets
\* justified (at the maximum, or a met secret entry).
C9_MaxedIsJustified ==
    ( /\ verdict.called
      /\ level.best_time # -1
      /\ verdict.counted )
        => /\ \/ level.best_kills = level.max_kills
              \/ SomeMet(level, exc_table.KILL_EXCEPTIONS, level.best_kills)
           /\ \/ level.best_secrets = level.max_secrets
              \/ SomeMet(level, exc_table.SECRET_EXCEPTIONS, level.best_secrets)

\* C10: on the same files and table, the run with PRINT_ONCE_PER_WAD has
\* reported as many WADs completely maxed as the run without, has called
\* check_max on exactly the lines of the file up to and including the first
\* that is not Maxed, and neither of its totals is greater (no best_kills of
\* the lines drawn is negative).
C10_EarlyExitAgrees ==
    /\ out[TRUE]["wad_maxed"] = out[FALSE]["wad_maxed"]
    /\ (in_file /\ pc[TRUE] \in {"loop", "break"})
          => calls[TRUE].made = PrefixLen(on_disk.outcomes)
    /\ TOTAL_MAXED_LVLS[TRUE] <= TOTAL_MAXED_LVLS[FALSE]
    /\ TOTAL_DEAD_DEMONS[TRUE] <= TOTAL_DEAD_DEMONS[FALSE]

====
